---------------------------- MODULE Spec2Model ----------------------------
(***************************************************************************)
(* Model of blockchain/transact.go (bytom): the transaction build loop     *)
(* (buildSingle / actionDecoder), submitSingle / submit / signSubmit,      *)
(* finalizeTxWait and the confirmation waiter waitForTxInBlock.            *)
(*                                                                         *)
(* The specifications share the variables:                                 *)
(*   SpecWait     one call of waitForTxInBlock or of finalizeTxWait        *)
(*                running against a chain on which blocks land, a pending  *)
(*                pool and a context that may be cancelled at any moment;  *)
(*   FairSpecWait SpecWait under a fair scheduler, for termination;        *)
(*   SpecWait2    two concurrent calls of waitForTxInBlock awaiting        *)
(*                different transactions on the same chain;                *)
(*   SpecBuild    one call of buildSingle on a bounded request;            *)
(*   SpecSubmit   one call of submit or of signSubmit.                     *)
(* Each holds the other components' variables at their idle values.        *)
(*                                                                         *)
(* Heights are uint64 in the source.  Every height of the model is at most *)
(* MaxChain + MaxLower + 1, far from 2^64, so height++ never wraps here.   *)
(***************************************************************************)
EXTENDS Integers, Sequences, FiniteSets

VARIABLES
    \* ---- the chain, the pending pool and the context (shared resources)
    chain,      \* blocks that have landed; chain[h] is the block at height h
    pool,       \* IDs of the transactions in the pending pool
    ctxErr,     \* ctx.Err(): "nil" until the context is done
    \* ---- one call of waitForTxInBlock / finalizeTxWait
    op,         \* which function was called
    waitUntil,  \* finalizeTxWait's waitUntil argument
    lower,      \* waitForTxInBlock's height argument (the lower bound H)
    pc,         \* position of the call in its code
    height,     \* waitForTxInBlock's local height
    localHeight,\* finalizeTxWait's localHeight
    blk,        \* waitForTxInBlock's local b (the fetched block)
    err,        \* the local err
    ret,        \* the returned values, once the call has returned
    waited,     \* history: heights whose BlockWaiter the select was entered on
    fetched,    \* history: heights passed to GetBlockByHeight
    finalized,  \* history: value of height at each FinalizeTx call
    admitted,   \* history: the heights whose re-injection FinalizeTx accepted
    \* ---- one call of buildSingle
    req,        \* the BuildRequest
    bpc,        \* position of the call in its code
    idx,        \* the loop variable i (0-based, as in the source)
    actions,    \* the local actions slice
    ferr,       \* what filterAliases returned
    asm,        \* what txbuilder.Build returned: [tpl, err]
    bret,       \* the returned values, once the call has returned
    \* ---- one call of submit / signSubmit
    stpl,       \* the Template handed in
    auth,       \* signSubmit's x.Auth
    sres,       \* the Response, once the handler has returned
    \* ---- a second call of waitForTxInBlock, awaiting another transaction
    lower2,     \* its height argument
    pc2,        \* its position in the code
    height2,    \* its local height
    blk2,       \* its local b
    err2,       \* its local err
    ret2,       \* its returned values
    ctxErr2     \* ctx.Err() of its own context

vars == <<chain, pool, ctxErr, op, waitUntil, lower, pc, height, localHeight,
          blk, err, ret, waited, fetched, finalized, admitted,
          req, bpc, idx, actions, ferr, asm, bret,
          stpl, auth, sres, lower2, pc2, height2, blk2, err2, ret2,
          ctxErr2>>

waitVars == <<chain, pool, ctxErr, op, waitUntil, lower, pc, height,
              localHeight, blk, err, ret, waited, fetched, finalized,
              admitted>>

submitVars == <<stpl, auth, sres>>

wait2Vars == <<lower2, pc2, height2, blk2, err2, ret2, ctxErr2>>

buildVars == <<req, bpc, idx, actions, ferr, asm, bret>>

-----------------------------------------------------------------------------
(* Bounds *)

\* blocks that may land on the chain
MaxChain == 3
\* largest lower bound H handed to waitForTxInBlock
MaxLower == 1
\* longest action list of a build request
MaxActions == 2
\* largest caller-supplied TTL, in minutes
MaxTTL == 1
\* latest reading of the clock, in minutes
MaxNow == 1

-----------------------------------------------------------------------------
(* Values *)

\* tx.ID of the awaited transaction, and the ID of another caller's transaction
AwaitedTx == "txA"
OtherTx == "txB"
TxIDs == {AwaitedTx, OtherTx}

\* An error value: its root and the context message wrapped around it
Err(root) == [root |-> root, wrap |-> ""]
NoErr == Err("nil")
CtxErrs == {Err("context canceled"), Err("context deadline exceeded")}
ErrFetch == Err("storage error")
ErrRejected == Err("ErrRejected")

NoBlock == [Transactions |-> {}]
NoRet == [done |-> FALSE, height |-> 0, err |-> NoErr]

Return(h, e) == [done |-> TRUE, height |-> h, err |-> e]

\* errors.Wrap(err, msg)
Wrap(e, msg) == [e EXCEPT !.wrap = msg]

WaitModes == {"none", "confirmed", "processed"}

\* tpl.Transaction == nil
NoTx == "nil"

\* a Template: its built transaction (by ID) and whether Sign went over it
Template(tx, signed) == [Transaction |-> tx, signed |-> signed]

\* a Response: resWrapper(data) or resWrapper(nil, err)
NoRes == [done |-> FALSE, txid |-> "", err |-> NoErr]
Respond(txid, e) == [done |-> TRUE, txid |-> txid, err |-> e]

\* no call of submit / signSubmit
SubmitIdle ==
    /\ stpl = Template(NoTx, FALSE)
    /\ auth = "valid"
    /\ sres = NoRes

\* no second waiter
Wait2Idle ==
    /\ lower2 = 0
    /\ pc2 = "idle"
    /\ height2 = 0
    /\ blk2 = NoBlock
    /\ err2 = NoErr
    /\ ret2 = NoRet
    /\ ctxErr2 = NoErr

-----------------------------------------------------------------------------
(* Collaborators: the chain and the pool *)

\* bcr.chain.Height()
Height == Len(chain)

\* the signal of bcr.chain.BlockWaiter(h) is ready once a block landed at h
BlockLanded(h) == h <= Len(chain)

\* mutant: the scan takes any transaction of the block for the awaited one
BlockContains_AnyTx(b, id) == b.Transactions # {}

\* confirmed.ID == tx.ID for some confirmed in b.Transactions
BlockContains(b, id) == id \in b.Transactions

\* txbuilder.FinalizeTx: pool admission.  ok is the admission routine's
\* verdict; a rejection leaves the pool as it was.
FinalizeTx(id, ok) ==
    /\ pool' = IF ok THEN pool \cup {id} ELSE pool
    /\ err' = IF ok THEN NoErr ELSE ErrRejected

-----------------------------------------------------------------------------
(* Values of a build *)

\* the tags of actionDecoder's switch
RegisteredTypes ==
    {"control_account", "control_address", "control_program",
     "control_receiver", "issue", "retire", "spend_account",
     "spend_account_unspent_output", "set_transaction_reference_data"}

\* act["type"]: absent, a value that is no string, or a string
TypeFields ==
    {[kind |-> "absent", s |-> ""], [kind |-> "number", s |-> ""]}
    \cup {[kind |-> "string", s |-> t] :
             t \in RegisteredTypes \cup {"bogus_type", ""}}

\* what the rest of the ActionSpec is worth: a payload its decoder accepts,
\* one it rejects, or one json.Marshal cannot serialise
Payloads == {"good", "malformed", "unmarshalable"}

ActionSpecs == [type : TypeFields, payload : Payloads]

SeqsUpTo(S, n) == UNION {[1 .. k -> S] : k \in 0 .. n}

\* An error of a build: its root, its detail (text, quoted type, 0-based
\* action index; -1 when the detail carries no index) and its data["actions"]
BErr(root, text, typ, index, data) ==
    [root |-> root, text |-> text, typ |-> typ, index |-> index,
     data |-> data]
NoBErr == BErr("nil", "", "", -1, << >>)

\* []*txbuilder.SigningInstruction: a nil slice or a slice with items
NilSlice == [isNil |-> TRUE, items |-> << >>]
Slice(items) == [isNil |-> FALSE, items |-> items]

\* *txbuilder.Template
NilTpl == [isNil |-> TRUE, SigningInstructions |-> NilSlice]
Tpl(si) == [isNil |-> FALSE, SigningInstructions |-> si]

\* var defaultTxTTL = 5 * time.Minute (durations and times are in minutes)
defaultTxTTL == 5

\* req.TTL: unset (its Duration is then the zero value) or set by the caller
TTLs ==
    {[set |-> FALSE, Duration |-> 0]}
    \cup {[set |-> TRUE, Duration |-> d] : d \in -1 .. MaxTTL}

NoAsm ==
    [called |-> FALSE, now |-> 0, maxTime |-> 0, tpl |-> NilTpl,
     err |-> NoBErr]
NoBRet == [done |-> FALSE, tpl |-> NilTpl, err |-> NoBErr]
BReturn(tpl, e) == [done |-> TRUE, tpl |-> tpl, err |-> e]

-----------------------------------------------------------------------------
(* actionDecoder and the collaborators of buildSingle *)

\* actionDecoder(action): (decoder, true) for the nine tags, (nil, false)
\* for anything else
actionDecoder(action) ==
    CASE action = "control_account" ->
            [decoder |-> "accounts.DecodeControlAction", ok |-> TRUE]
      [] action = "control_address" ->
            [decoder |-> "txbuilder.DecodeControlAddressAction", ok |-> TRUE]
      [] action = "control_program" ->
            [decoder |-> "txbuilder.DecodeControlProgramAction", ok |-> TRUE]
      [] action = "control_receiver" ->
            [decoder |-> "txbuilder.DecodeControlReceiverAction", ok |-> TRUE]
      [] action = "issue" ->
            [decoder |-> "assets.DecodeIssueAction", ok |-> TRUE]
      [] action = "retire" ->
            [decoder |-> "txbuilder.DecodeRetireAction", ok |-> TRUE]
      [] action = "spend_account" ->
            [decoder |-> "accounts.DecodeSpendAction", ok |-> TRUE]
      [] action = "spend_account_unspent_output" ->
            [decoder |-> "accounts.DecodeSpendUTXOAction", ok |-> TRUE]
      [] action = "set_transaction_reference_data" ->
            [decoder |-> "txbuilder.DecodeSetTxRefDataAction", ok |-> TRUE]
      [] OTHER -> [decoder |-> "nil", ok |-> FALSE]

\* typ, ok := act["type"].(string)
TypeAssert(act) ==
    IF act.type.kind = "string"
    THEN [typ |-> act.type.s, ok |-> TRUE]
    ELSE [typ |-> "", ok |-> FALSE]

\* json.Marshal(act) succeeds
Marshals(act) == act.payload # "unmarshalable"

\* decoder(b) succeeds
Decodes(act) == act.payload = "good"

\* errorFormatter.Format(innerErr): the httperror.Response of an inner error
Format(innerErr) == [response |-> innerErr.text, index |-> innerErr.index]

\* mutant: only the first inner error is formatted
FormatAll_FirstOnly(errs) ==
    IF errs = << >> THEN << >> ELSE <<Format(errs[1])>>

\* for _, innerErr := range errors.Data(err)["actions"] { append(Format) }
FormatAll(errs) == [k \in 1 .. Len(errs) |-> Format(errs[k])]

\* the 0-based indexes of a set of 1-based positions, ascending
RECURSIVE Ascending(_)
Ascending(S) ==
    IF S = {} THEN << >>
    ELSE LET m == CHOOSE x \in S : \A y \in S : x <= y
         IN <<m>> \o Ascending(S \ {m})

\* txbuilder.Build failing in the action-error class: ErrAction carrying one
\* inner error per rejected action, each with the action's index
ErrActionOf(rejected) ==
    LET pos == Ascending(rejected)
    IN BErr("ErrAction", "errors occurred in one or more actions", "", -1,
            [k \in 1 .. Len(pos) |->
                BErr("action rejected", "action rejected", "", pos[k] - 1,
                     << >>)])

-----------------------------------------------------------------------------
(* buildSingle *)

\* err := bcr.filterAliases(ctx, req), err == nil
BuildAliasesFiltered ==
    /\ bpc = "filter"
    /\ ferr' = NoBErr
    /\ idx' = 0
    /\ bpc' = "loop"
    /\ UNCHANGED <<req, actions, asm, bret>>
    /\ UNCHANGED waitVars
    /\ UNCHANGED <<submitVars, wait2Vars>>

\* the error of filterAliases when it fails on the action at position k:
\* it carries the action's index
AliasErr(k) == BErr("alias", "invalid alias", "", k - 1, << >>)

\* mutant: the error of filterAliases is dropped and the build goes on
BuildAliasesFailed_Ignored ==
    /\ bpc = "filter"
    /\ \E k \in 1 .. Len(req.Actions) : ferr' = AliasErr(k)
    /\ idx' = 0
    /\ bpc' = "loop"
    /\ UNCHANGED <<req, actions, asm, bret>>
    /\ UNCHANGED waitVars
    /\ UNCHANGED <<submitVars, wait2Vars>>

\* filterAliases fails on some action: return nil, err
BuildAliasesFailed ==
    /\ bpc = "filter"
    /\ \E k \in 1 .. Len(req.Actions) :
          /\ ferr' = AliasErr(k)
          /\ bret' = BReturn(NilTpl, ferr')
    /\ bpc' = "done"
    /\ UNCHANGED <<req, idx, actions, asm>>
    /\ UNCHANGED waitVars
    /\ UNCHANGED <<submitVars, wait2Vars>>

\* the ActionSpec the loop is at
Act == req.Actions[idx + 1]

InLoop == bpc = "loop" /\ idx < Len(req.Actions)

\* mutant: the detail names the action by its 1-based position
BuildNoType_OneBased ==
    /\ InLoop
    /\ ~TypeAssert(Act).ok
    /\ bret' = BReturn(NilTpl,
                  BErr("errBadActionType", "no action type provided on action",
                       "", idx + 1, << >>))
    /\ bpc' = "done"
    /\ UNCHANGED <<req, idx, actions, ferr, asm>>
    /\ UNCHANGED waitVars
    /\ UNCHANGED <<submitVars, wait2Vars>>

\* typ, ok := act["type"].(string); !ok
BuildNoType ==
    /\ InLoop
    /\ ~TypeAssert(Act).ok
    /\ bret' = BReturn(NilTpl,
                  BErr("errBadActionType", "no action type provided on action",
                       "", idx, << >>))
    /\ bpc' = "done"
    /\ UNCHANGED <<req, idx, actions, ferr, asm>>
    /\ UNCHANGED waitVars
    /\ UNCHANGED <<submitVars, wait2Vars>>

\* mutant: an unknown type is skipped instead of failing the build
BuildUnknownType_Skipped ==
    /\ InLoop
    /\ TypeAssert(Act).ok
    /\ ~actionDecoder(TypeAssert(Act).typ).ok
    /\ idx' = idx + 1
    /\ UNCHANGED <<req, bpc, actions, ferr, asm, bret>>
    /\ UNCHANGED waitVars
    /\ UNCHANGED <<submitVars, wait2Vars>>

\* decoder, ok := bcr.actionDecoder(typ); !ok
BuildUnknownType ==
    /\ InLoop
    /\ TypeAssert(Act).ok
    /\ ~actionDecoder(TypeAssert(Act).typ).ok
    /\ bret' = BReturn(NilTpl,
                  BErr("errBadActionType", "unknown action type on action",
                       TypeAssert(Act).typ, idx, << >>))
    /\ bpc' = "done"
    /\ UNCHANGED <<req, idx, actions, ferr, asm>>
    /\ UNCHANGED waitVars
    /\ UNCHANGED <<submitVars, wait2Vars>>

\* b, err := json.Marshal(act); err != nil
BuildMarshalFailed ==
    /\ InLoop
    /\ TypeAssert(Act).ok
    /\ actionDecoder(TypeAssert(Act).typ).ok
    /\ ~Marshals(Act)
    /\ bret' = BReturn(NilTpl, BErr("json", "json: unsupported value", "",
                                    -1, << >>))
    /\ bpc' = "done"
    /\ UNCHANGED <<req, idx, actions, ferr, asm>>
    /\ UNCHANGED waitVars
    /\ UNCHANGED <<submitVars, wait2Vars>>

\* action, err := decoder(b); err != nil
BuildDecodeFailed ==
    /\ InLoop
    /\ TypeAssert(Act).ok
    /\ actionDecoder(TypeAssert(Act).typ).ok
    /\ Marshals(Act)
    /\ ~Decodes(Act)
    /\ bret' = BReturn(NilTpl,
                  BErr("errBadAction", "malformed payload on action", "", idx,
                       << >>))
    /\ bpc' = "done"
    /\ UNCHANGED <<req, idx, actions, ferr, asm>>
    /\ UNCHANGED waitVars
    /\ UNCHANGED <<submitVars, wait2Vars>>

\* actions = append(actions, action)
BuildDecoded ==
    /\ InLoop
    /\ TypeAssert(Act).ok
    /\ actionDecoder(TypeAssert(Act).typ).ok
    /\ Marshals(Act)
    /\ Decodes(Act)
    /\ actions' = Append(actions,
                     [decoder |-> actionDecoder(TypeAssert(Act).typ).decoder,
                      index |-> idx])
    /\ idx' = idx + 1
    /\ UNCHANGED <<req, bpc, ferr, asm, bret>>
    /\ UNCHANGED waitVars
    /\ UNCHANGED <<submitVars, wait2Vars>>

\* mutant: a zero TTL is used as it is
MaxTime_NoDefault(now, ttl) == now + ttl

\* ttl := req.TTL.Duration; if ttl == 0 { ttl = defaultTxTTL }
\* maxTime := time.Now().Add(ttl)
MaxTime(now, ttl) == now + (IF ttl = 0 THEN defaultTxTTL ELSE ttl)

\* the loop is over: the TTL is read and maxTime computed from the clock
BuildMaxTime ==
    /\ bpc = "loop"
    /\ idx = Len(req.Actions)
    /\ \E now \in 0 .. MaxNow :
          asm' = [NoAsm EXCEPT !.now = now,
                               !.maxTime = MaxTime(now, req.TTL.Duration)]
    /\ bpc' = "assemble"
    /\ UNCHANGED <<req, idx, actions, ferr, bret>>
    /\ UNCHANGED waitVars
    /\ UNCHANGED <<submitVars, wait2Vars>>

\* tpl, err := txbuilder.Build(ctx, req.Tx, actions, maxTime): a template,
\* whose SigningInstructions may be nil
BuildAssembled ==
    /\ bpc = "assemble"
    /\ \E si \in {NilSlice, Slice(<< >>), Slice(<<"si">>)} :
          asm' = [asm EXCEPT !.called = TRUE, !.tpl = Tpl(si)]
    /\ bpc' = "built"
    /\ UNCHANGED <<req, idx, actions, ferr, bret>>
    /\ UNCHANGED waitVars
    /\ UNCHANGED <<submitVars, wait2Vars>>

\* txbuilder.Build rejects some of the actions: ErrAction
BuildAssemblyRejected ==
    /\ bpc = "assemble"
    /\ \E rejected \in SUBSET (1 .. Len(actions)) :
          /\ rejected # {}
          /\ asm' = [asm EXCEPT !.called = TRUE,
                                !.err = ErrActionOf(rejected)]
    /\ bpc' = "built"
    /\ UNCHANGED <<req, idx, actions, ferr, bret>>
    /\ UNCHANGED waitVars
    /\ UNCHANGED <<submitVars, wait2Vars>>

\* txbuilder.Build fails with an error of another class
BuildAssemblyFailed ==
    /\ bpc = "assemble"
    /\ asm' = [asm EXCEPT !.called = TRUE,
                          !.err = BErr("ErrBuild", "building transaction",
                                       "", -1, << >>)]
    /\ bpc' = "built"
    /\ UNCHANGED <<req, idx, actions, ferr, bret>>
    /\ UNCHANGED waitVars
    /\ UNCHANGED <<submitVars, wait2Vars>>

\* errors.Root(err) == txbuilder.ErrAction: format the inner errors, put them
\* back under "actions", return nil, err
BuildReturnActionErrors ==
    /\ bpc = "built"
    /\ asm.err.root = "ErrAction"
    /\ bret' = BReturn(NilTpl,
                  [asm.err EXCEPT !.data = FormatAll(asm.err.data)])
    /\ bpc' = "done"
    /\ UNCHANGED <<req, idx, actions, ferr, asm>>
    /\ UNCHANGED waitVars
    /\ UNCHANGED <<submitVars, wait2Vars>>

\* if err != nil { return nil, err }
BuildReturnErr ==
    /\ bpc = "built"
    /\ asm.err.root # "ErrAction"
    /\ asm.err # NoBErr
    /\ bret' = BReturn(NilTpl, asm.err)
    /\ bpc' = "done"
    /\ UNCHANGED <<req, idx, actions, ferr, asm>>
    /\ UNCHANGED waitVars
    /\ UNCHANGED <<submitVars, wait2Vars>>

\* mutant: the template is returned as the assembly produced it
BuildReturnTpl_AsAssembled ==
    /\ bpc = "built"
    /\ asm.err = NoBErr
    /\ bret' = BReturn(asm.tpl, NoBErr)
    /\ bpc' = "done"
    /\ UNCHANGED <<req, idx, actions, ferr, asm>>
    /\ UNCHANGED waitVars
    /\ UNCHANGED <<submitVars, wait2Vars>>

\* if tpl.SigningInstructions == nil { ... = []*SigningInstruction{} }
\* return tpl, nil
BuildReturnTpl ==
    /\ bpc = "built"
    /\ asm.err = NoBErr
    /\ bret' = BReturn(
                  IF asm.tpl.SigningInstructions.isNil
                  THEN [asm.tpl EXCEPT !.SigningInstructions = Slice(<< >>)]
                  ELSE asm.tpl,
                  NoBErr)
    /\ bpc' = "done"
    /\ UNCHANGED <<req, idx, actions, ferr, asm>>
    /\ UNCHANGED waitVars
    /\ UNCHANGED <<submitVars, wait2Vars>>

-----------------------------------------------------------------------------
(* The specification of a build *)

WaitIdle ==
    /\ chain = << >>
    /\ pool = {}
    /\ ctxErr = NoErr
    /\ op = "buildSingle"
    /\ waitUntil = "none"
    /\ lower = 0
    /\ pc = "idle"
    /\ height = 0
    /\ localHeight = 0
    /\ blk = NoBlock
    /\ err = NoErr
    /\ ret = NoRet
    /\ waited = << >>
    /\ fetched = << >>
    /\ finalized = << >>
    /\ admitted = << >>

InitBuild ==
    /\ req \in [Actions : SeqsUpTo(ActionSpecs, MaxActions), TTL : TTLs]
    /\ bpc = "filter"
    /\ idx = 0
    /\ actions = << >>
    /\ ferr = NoBErr
    /\ asm = NoAsm
    /\ bret = NoBRet
    /\ WaitIdle
    /\ SubmitIdle
    /\ Wait2Idle

NextBuild ==
    \/ BuildAliasesFiltered
    \/ BuildAliasesFailed
    \/ BuildNoType
    \/ BuildUnknownType
    \/ BuildMarshalFailed
    \/ BuildDecodeFailed
    \/ BuildDecoded
    \/ BuildMaxTime
    \/ BuildAssembled
    \/ BuildAssemblyRejected
    \/ BuildAssemblyFailed
    \/ BuildReturnActionErrors
    \/ BuildReturnErr
    \/ BuildReturnTpl

SpecBuild == InitBuild /\ [][NextBuild]_vars

-----------------------------------------------------------------------------
(* The environment of a wait: block production, pool eviction, cancellation *)

LandBlock ==
    /\ Len(chain) < MaxChain
    /\ \E txs \in SUBSET TxIDs :
          /\ chain' = Append(chain, [Transactions |-> txs])
          /\ pool' = pool \ txs
    /\ UNCHANGED <<ctxErr, op, waitUntil, lower, pc, height, localHeight, blk,
                   err, ret, waited, fetched, finalized>>
    /\ UNCHANGED buildVars
    /\ UNCHANGED admitted
    /\ UNCHANGED <<submitVars, wait2Vars>>

Evict ==
    /\ \E id \in pool : pool' = pool \ {id}
    /\ UNCHANGED <<chain, ctxErr, op, waitUntil, lower, pc, height,
                   localHeight, blk, err, ret, waited, fetched, finalized>>
    /\ UNCHANGED buildVars
    /\ UNCHANGED admitted
    /\ UNCHANGED <<submitVars, wait2Vars>>

Cancel ==
    /\ ctxErr = NoErr
    /\ ctxErr' \in CtxErrs
    /\ UNCHANGED <<chain, pool, op, waitUntil, lower, pc, height, localHeight,
                   blk, err, ret, waited, fetched, finalized>>
    /\ UNCHANGED buildVars
    /\ UNCHANGED admitted
    /\ UNCHANGED <<submitVars, wait2Vars>>

-----------------------------------------------------------------------------
(* waitForTxInBlock *)

\* mutant: the loop advances the height by two
WaitIncrement_SkipsOne ==
    /\ pc = "loop"
    /\ height' = height + 2
    /\ waited' = Append(waited, height + 2)
    /\ pc' = "select"
    /\ UNCHANGED <<chain, pool, ctxErr, op, waitUntil, lower, localHeight,
                   blk, err, ret, fetched, finalized>>
    /\ UNCHANGED buildVars
    /\ UNCHANGED admitted
    /\ UNCHANGED <<submitVars, wait2Vars>>

\* for { height++ ; select { ... BlockWaiter(height) ... } }
WaitIncrement ==
    /\ pc = "loop"
    /\ height' = height + 1
    /\ waited' = Append(waited, height + 1)
    /\ pc' = "select"
    /\ UNCHANGED <<chain, pool, ctxErr, op, waitUntil, lower, localHeight,
                   blk, err, ret, fetched, finalized>>
    /\ UNCHANGED buildVars
    /\ UNCHANGED admitted
    /\ UNCHANGED <<submitVars, wait2Vars>>

\* mutant: the select has no cancellation case
WaitCancelled_NoCase ==
    /\ pc = "select"
    /\ ctxErr # NoErr
    /\ UNCHANGED vars

\* mutant: the cancellation branch returns the tracked height
WaitCancelled_KeepsHeight ==
    /\ pc = "select"
    /\ ctxErr # NoErr
    /\ ret' = Return(height, ctxErr)
    /\ pc' = "done"
    /\ UNCHANGED <<chain, pool, ctxErr, op, waitUntil, lower, height,
                   localHeight, blk, err, waited, fetched, finalized>>
    /\ UNCHANGED buildVars
    /\ UNCHANGED admitted
    /\ UNCHANGED <<submitVars, wait2Vars>>

\* case <-ctx.Done(): return 0, ctx.Err()
WaitCancelled ==
    /\ pc = "select"
    /\ ctxErr # NoErr
    /\ ret' = Return(0, ctxErr)
    /\ pc' = "done"
    /\ UNCHANGED <<chain, pool, ctxErr, op, waitUntil, lower, height,
                   localHeight, blk, err, waited, fetched, finalized>>
    /\ UNCHANGED buildVars
    /\ UNCHANGED admitted
    /\ UNCHANGED <<submitVars, wait2Vars>>

\* case <-bcr.chain.BlockWaiter(height): b, err := GetBlockByHeight(height)
\* with err == nil
WaitFetched ==
    /\ pc = "select"
    /\ BlockLanded(height)
    /\ fetched' = Append(fetched, height)
    /\ blk' = chain[height]
    /\ err' = NoErr
    /\ pc' = "scan"
    /\ UNCHANGED <<chain, pool, ctxErr, op, waitUntil, lower, height,
                   localHeight, ret, waited, finalized>>
    /\ UNCHANGED buildVars
    /\ UNCHANGED admitted
    /\ UNCHANGED <<submitVars, wait2Vars>>

\* mutant: a failed fetch is tried again
WaitFetchFailed_Retries ==
    /\ pc = "select"
    /\ BlockLanded(height)
    /\ fetched' = Append(fetched, height)
    /\ err' = ErrFetch
    /\ pc' = "select"
    /\ UNCHANGED <<chain, pool, ctxErr, op, waitUntil, lower, height,
                   localHeight, blk, ret, waited, finalized>>
    /\ UNCHANGED buildVars
    /\ UNCHANGED admitted
    /\ UNCHANGED <<submitVars, wait2Vars>>

\* the same case, GetBlockByHeight failing:
\* return 0, errors.Wrap(err, "getting block that just landed")
WaitFetchFailed ==
    /\ pc = "select"
    /\ BlockLanded(height)
    /\ fetched' = Append(fetched, height)
    /\ err' = ErrFetch
    /\ ret' = Return(0, Wrap(ErrFetch, "getting block that just landed"))
    /\ pc' = "done"
    /\ UNCHANGED <<chain, pool, ctxErr, op, waitUntil, lower, height,
                   localHeight, blk, waited, finalized>>
    /\ UNCHANGED buildVars
    /\ UNCHANGED admitted
    /\ UNCHANGED <<submitVars, wait2Vars>>

\* the scan finds confirmed.ID == tx.ID: return height, nil
WaitConfirmed ==
    /\ pc = "scan"
    /\ BlockContains(blk, AwaitedTx)
    /\ ret' = Return(height, NoErr)
    /\ pc' = "done"
    /\ UNCHANGED <<chain, pool, ctxErr, op, waitUntil, lower, height,
                   localHeight, blk, err, waited, fetched, finalized>>
    /\ UNCHANGED buildVars
    /\ UNCHANGED admitted
    /\ UNCHANGED <<submitVars, wait2Vars>>

\* mutant: a miss goes on to the next height without re-injecting
WaitReinject_Skipped ==
    /\ pc = "scan"
    /\ ~BlockContains(blk, AwaitedTx)
    /\ err' = NoErr
    /\ pc' = "reinjected"
    /\ UNCHANGED <<chain, pool, ctxErr, op, waitUntil, lower, height,
                   localHeight, blk, ret, waited, fetched, finalized>>
    /\ UNCHANGED buildVars
    /\ UNCHANGED admitted
    /\ UNCHANGED <<submitVars, wait2Vars>>

\* the scan finds nothing: err = txbuilder.FinalizeTx(ctx, bcr.chain, tx)
WaitReinject ==
    /\ pc = "scan"
    /\ ~BlockContains(blk, AwaitedTx)
    /\ \E ok \in BOOLEAN :
          /\ FinalizeTx(AwaitedTx, ok)
          /\ admitted' = IF ok THEN Append(admitted, height) ELSE admitted
    /\ finalized' = Append(finalized, height)
    /\ pc' = "reinjected"
    /\ UNCHANGED <<chain, ctxErr, op, waitUntil, lower, height, localHeight,
                   blk, ret, waited, fetched>>
    /\ UNCHANGED buildVars
    /\ UNCHANGED <<submitVars, wait2Vars>>

\* mutant: a failed re-injection returns the height it happened at
WaitReinjectFailed_KeepsHeight ==
    /\ pc = "reinjected"
    /\ err # NoErr
    /\ ret' = Return(height, err)
    /\ pc' = "done"
    /\ UNCHANGED <<chain, pool, ctxErr, op, waitUntil, lower, height,
                   localHeight, blk, err, waited, fetched, finalized>>
    /\ UNCHANGED buildVars
    /\ UNCHANGED admitted
    /\ UNCHANGED <<submitVars, wait2Vars>>

\* mutant: a failed re-injection is passed over and the next height waited on
WaitReinjectFailed_Continues ==
    /\ pc = "reinjected"
    /\ err # NoErr
    /\ pc' = "loop"
    /\ UNCHANGED <<chain, pool, ctxErr, op, waitUntil, lower, height,
                   localHeight, blk, err, ret, waited, fetched, finalized>>
    /\ UNCHANGED buildVars
    /\ UNCHANGED admitted
    /\ UNCHANGED <<submitVars, wait2Vars>>

\* if err != nil { return 0, err }
WaitReinjectFailed ==
    /\ pc = "reinjected"
    /\ err # NoErr
    /\ ret' = Return(0, err)
    /\ pc' = "done"
    /\ UNCHANGED <<chain, pool, ctxErr, op, waitUntil, lower, height,
                   localHeight, blk, err, waited, fetched, finalized>>
    /\ UNCHANGED buildVars
    /\ UNCHANGED admitted
    /\ UNCHANGED <<submitVars, wait2Vars>>

\* err == nil: the end of the select, back to the top of the for
WaitContinue ==
    /\ pc = "reinjected"
    /\ err = NoErr
    /\ pc' = "loop"
    /\ UNCHANGED <<chain, pool, ctxErr, op, waitUntil, lower, height,
                   localHeight, blk, err, ret, waited, fetched, finalized>>
    /\ UNCHANGED buildVars
    /\ UNCHANGED admitted
    /\ UNCHANGED <<submitVars, wait2Vars>>

-----------------------------------------------------------------------------
(* finalizeTxWait *)

\* localHeight := bcr.chain.Height()
FtwHeight ==
    /\ pc = "height"
    /\ localHeight' = Height
    /\ pc' = "finalize"
    /\ UNCHANGED <<chain, pool, ctxErr, op, waitUntil, lower, height, blk,
                   err, ret, waited, fetched, finalized>>
    /\ UNCHANGED buildVars
    /\ UNCHANGED admitted
    /\ UNCHANGED <<submitVars, wait2Vars>>

\* err := txbuilder.FinalizeTx(ctx, bcr.chain, txTemplate.Transaction)
FtwFinalize ==
    /\ pc = "finalize"
    /\ \E ok \in BOOLEAN : FinalizeTx(AwaitedTx, ok)
    /\ finalized' = Append(finalized, localHeight)
    /\ pc' = "finalized"
    /\ UNCHANGED <<chain, ctxErr, op, waitUntil, lower, height, localHeight,
                   blk, ret, waited, fetched>>
    /\ UNCHANGED buildVars
    /\ UNCHANGED admitted
    /\ UNCHANGED <<submitVars, wait2Vars>>

\* if err != nil { return err }
FtwReturnErr ==
    /\ pc = "finalized"
    /\ err # NoErr
    /\ ret' = Return(0, err)
    /\ pc' = "done"
    /\ UNCHANGED <<chain, pool, ctxErr, op, waitUntil, lower, height,
                   localHeight, blk, err, waited, fetched, finalized>>
    /\ UNCHANGED buildVars
    /\ UNCHANGED admitted
    /\ UNCHANGED <<submitVars, wait2Vars>>

\* mutant: waitUntil == "none" is not tested and the call goes on to wait
FtwReturnNone_Waits ==
    /\ pc = "finalized"
    /\ err = NoErr
    /\ waitUntil = "none"
    /\ height' = localHeight
    /\ pc' = "loop"
    /\ UNCHANGED <<chain, pool, ctxErr, op, waitUntil, lower, localHeight,
                   blk, err, ret, waited, fetched, finalized>>
    /\ UNCHANGED buildVars
    /\ UNCHANGED admitted
    /\ UNCHANGED <<submitVars, wait2Vars>>

\* if waitUntil == "none" { return nil }
FtwReturnNone ==
    /\ pc = "finalized"
    /\ err = NoErr
    /\ waitUntil = "none"
    /\ ret' = Return(0, NoErr)
    /\ pc' = "done"
    /\ UNCHANGED <<chain, pool, ctxErr, op, waitUntil, lower, height,
                   localHeight, blk, err, waited, fetched, finalized>>
    /\ UNCHANGED buildVars
    /\ UNCHANGED admitted
    /\ UNCHANGED <<submitVars, wait2Vars>>

\* The call of waitForTxInBlock is commented out (the TODO), so err is still
\* nil at the second "if err != nil", which never returns.
\* if waitUntil == "confirmed" { return nil }
FtwReturnConfirmed ==
    /\ pc = "finalized"
    /\ err = NoErr
    /\ waitUntil = "confirmed"
    /\ ret' = Return(0, NoErr)
    /\ pc' = "done"
    /\ UNCHANGED <<chain, pool, ctxErr, op, waitUntil, lower, height,
                   localHeight, blk, err, waited, fetched, finalized>>
    /\ UNCHANGED buildVars
    /\ UNCHANGED admitted
    /\ UNCHANGED <<submitVars, wait2Vars>>

\* the final return nil, for any other waitUntil
FtwReturnOther ==
    /\ pc = "finalized"
    /\ err = NoErr
    /\ waitUntil \notin {"none", "confirmed"}
    /\ ret' = Return(0, NoErr)
    /\ pc' = "done"
    /\ UNCHANGED <<chain, pool, ctxErr, op, waitUntil, lower, height,
                   localHeight, blk, err, waited, fetched, finalized>>
    /\ UNCHANGED buildVars
    /\ UNCHANGED admitted
    /\ UNCHANGED <<submitVars, wait2Vars>>

-----------------------------------------------------------------------------
(* The specification of a wait *)

BuildIdle ==
    /\ req = [Actions |-> << >>, TTL |-> [set |-> FALSE, Duration |-> 0]]
    /\ bpc = "idle"
    /\ idx = 0
    /\ actions = << >>
    /\ ferr = NoBErr
    /\ asm = NoAsm
    /\ bret = NoBRet

InitWait ==
    /\ chain = << >>
    /\ pool \in SUBSET TxIDs
    /\ ctxErr = NoErr
    /\ op \in {"waitForTxInBlock", "finalizeTxWait"}
    /\ waitUntil \in IF op = "finalizeTxWait" THEN WaitModes ELSE {"none"}
    /\ lower \in IF op = "waitForTxInBlock" THEN 0 .. MaxLower ELSE {0}
    /\ pc = IF op = "waitForTxInBlock" THEN "loop" ELSE "height"
    /\ height = lower
    /\ localHeight = 0
    /\ blk = NoBlock
    /\ err = NoErr
    /\ ret = NoRet
    /\ waited = << >>
    /\ fetched = << >>
    /\ finalized = << >>
    /\ admitted = << >>
    /\ BuildIdle
    /\ SubmitIdle
    /\ Wait2Idle

NextWait ==
    \/ LandBlock
    \/ Evict
    \/ Cancel
    \/ WaitIncrement
    \/ WaitCancelled
    \/ WaitFetched
    \/ WaitFetchFailed
    \/ WaitConfirmed
    \/ WaitReinject
    \/ WaitReinjectFailed
    \/ WaitContinue
    \/ FtwHeight
    \/ FtwFinalize
    \/ FtwReturnErr
    \/ FtwReturnNone
    \/ FtwReturnConfirmed
    \/ FtwReturnOther

SpecWait == InitWait /\ [][NextWait]_vars

\* a step of the goroutine that runs waitForTxInBlock
WaiterStep ==
    \/ WaitIncrement
    \/ WaitCancelled
    \/ WaitFetched
    \/ WaitFetchFailed
    \/ WaitConfirmed
    \/ WaitReinject
    \/ WaitReinjectFailed
    \/ WaitContinue

\* SpecWait with a fair scheduler: the goroutine is not starved while it can
\* step, and a select whose cancellation case is ready again and again takes
\* it in the end (Go picks among the ready cases at random)
FairSpecWait ==
    /\ InitWait
    /\ [][NextWait]_vars
    /\ WF_vars(WaiterStep)
    /\ SF_vars(WaitCancelled)

-----------------------------------------------------------------------------
(* submitSingle, submit and signSubmit *)

ErrMissingRawTx == Err("ErrMissingRawTx")
ErrSign == Err("ErrSign")

\* the context of errors.Wrapf(err, "tx %s", tpl.Transaction.ID.String())
TxContext(id) == IF id = AwaitedTx THEN "tx txA" ELSE "tx txB"

\* txbuilder.Sign succeeds: never with an invalid credential
SignOutcomes == IF auth = "valid" THEN BOOLEAN ELSE {FALSE}

\* signSubmit: err = txbuilder.Sign(...) is nil; "Sign Transaction complete."
SignSubmitSigned ==
    /\ pc = "sign"
    /\ TRUE \in SignOutcomes
    /\ stpl' = [stpl EXCEPT !.signed = TRUE]
    /\ err' = NoErr
    /\ pc' = "submit"
    /\ UNCHANGED <<chain, pool, ctxErr, op, waitUntil, lower, height,
                   localHeight, blk, ret, waited, fetched, finalized,
                   admitted, auth, sres>>
    /\ UNCHANGED <<buildVars, wait2Vars>>

\* mutant: the signing error is logged and the handler goes on to submit
SignSubmitSignFailed_GoesOn ==
    /\ pc = "sign"
    /\ FALSE \in SignOutcomes
    /\ err' = ErrSign
    /\ pc' = "submit"
    /\ UNCHANGED <<chain, pool, ctxErr, op, waitUntil, lower, height,
                   localHeight, blk, ret, waited, fetched, finalized,
                   admitted, stpl, auth, sres>>
    /\ UNCHANGED <<buildVars, wait2Vars>>

\* signSubmit: Sign fails: return resWrapper(nil, err)
SignSubmitSignFailed ==
    /\ pc = "sign"
    /\ FALSE \in SignOutcomes
    /\ err' = ErrSign
    /\ sres' = Respond("", ErrSign)
    /\ pc' = "done"
    /\ UNCHANGED <<chain, pool, ctxErr, op, waitUntil, lower, height,
                   localHeight, blk, ret, waited, fetched, finalized,
                   admitted, stpl, auth>>
    /\ UNCHANGED <<buildVars, wait2Vars>>

\* mutant: tpl.Transaction is not tested before FinalizeTx
SubmitMissingTx_Unchecked ==
    /\ pc = "submit"
    /\ stpl.Transaction = NoTx
    /\ \E ok \in BOOLEAN : FinalizeTx(stpl.Transaction, ok)
    /\ finalized' = Append(finalized, 0)
    /\ pc' = "submitted"
    /\ UNCHANGED <<chain, ctxErr, op, waitUntil, lower, height, localHeight,
                   blk, ret, waited, fetched, admitted, stpl, auth, sres>>
    /\ UNCHANGED <<buildVars, wait2Vars>>

\* submitSingle: tpl.Transaction == nil: errors.Wrap(ErrMissingRawTx), which
\* the handler returns as resWrapper(nil, err)
SubmitMissingTx ==
    /\ pc = "submit"
    /\ stpl.Transaction = NoTx
    /\ err' = ErrMissingRawTx
    /\ sres' = Respond("", ErrMissingRawTx)
    /\ pc' = "done"
    /\ UNCHANGED <<chain, pool, ctxErr, op, waitUntil, lower, height,
                   localHeight, blk, ret, waited, fetched, finalized,
                   admitted, stpl, auth>>
    /\ UNCHANGED <<buildVars, wait2Vars>>

\* submitSingle: err := txbuilder.FinalizeTx(ctx, bcr.chain, tpl.Transaction)
SubmitFinalize ==
    /\ pc = "submit"
    /\ stpl.Transaction # NoTx
    /\ \E ok \in BOOLEAN : FinalizeTx(stpl.Transaction, ok)
    /\ finalized' = Append(finalized, 0)
    /\ pc' = "submitted"
    /\ UNCHANGED <<chain, ctxErr, op, waitUntil, lower, height, localHeight,
                   blk, ret, waited, fetched, admitted, stpl, auth, sres>>
    /\ UNCHANGED <<buildVars, wait2Vars>>

\* mutant: the rejection is returned without the transaction's ID
SubmitRejected_Unwrapped ==
    /\ pc = "submitted"
    /\ err # NoErr
    /\ sres' = Respond("", err)
    /\ pc' = "done"
    /\ UNCHANGED <<chain, pool, ctxErr, op, waitUntil, lower, height,
                   localHeight, blk, err, ret, waited, fetched, finalized,
                   admitted, stpl, auth>>
    /\ UNCHANGED <<buildVars, wait2Vars>>

\* submitSingle: err != nil: errors.Wrapf(err, "tx %s", ID), which the
\* handler returns as resWrapper(nil, err)
SubmitRejected ==
    /\ pc = "submitted"
    /\ err # NoErr
    /\ sres' = Respond("", Wrap(err, TxContext(stpl.Transaction)))
    /\ pc' = "done"
    /\ UNCHANGED <<chain, pool, ctxErr, op, waitUntil, lower, height,
                   localHeight, blk, err, ret, waited, fetched, finalized,
                   admitted, stpl, auth>>
    /\ UNCHANGED <<buildVars, wait2Vars>>

\* submitSingle: return map[string]string{"txid": ID}, nil, which the
\* handler returns as resWrapper(txid)
SubmitAccepted ==
    /\ pc = "submitted"
    /\ err = NoErr
    /\ sres' = Respond(stpl.Transaction, NoErr)
    /\ pc' = "done"
    /\ UNCHANGED <<chain, pool, ctxErr, op, waitUntil, lower, height,
                   localHeight, blk, err, ret, waited, fetched, finalized,
                   admitted, stpl, auth>>
    /\ UNCHANGED <<buildVars, wait2Vars>>

InitSubmit ==
    /\ chain = << >>
    /\ pool \in SUBSET TxIDs
    /\ ctxErr = NoErr
    /\ op \in {"submit", "signSubmit"}
    /\ waitUntil = "none"
    /\ lower = 0
    /\ pc = IF op = "signSubmit" THEN "sign" ELSE "submit"
    /\ height = 0
    /\ localHeight = 0
    /\ blk = NoBlock
    /\ err = NoErr
    /\ ret = NoRet
    /\ waited = << >>
    /\ fetched = << >>
    /\ finalized = << >>
    /\ admitted = << >>
    /\ stpl \in {Template(tx, FALSE) : tx \in {NoTx} \cup TxIDs}
    /\ auth \in IF op = "signSubmit" THEN {"valid", "invalid"} ELSE {"valid"}
    /\ sres = NoRes
    /\ BuildIdle
    /\ Wait2Idle

NextSubmit ==
    \/ Evict
    \/ SignSubmitSigned
    \/ SignSubmitSignFailed
    \/ SubmitMissingTx
    \/ SubmitFinalize
    \/ SubmitRejected
    \/ SubmitAccepted

SpecSubmit == InitSubmit /\ [][NextSubmit]_vars

-----------------------------------------------------------------------------
(* Two concurrent calls of waitForTxInBlock: the first awaits AwaitedTx, the *)
(* second, on behalf of another caller, awaits OtherTx.  They share the      *)
(* chain and the pool; each has its own context.                             *)

\* the second caller's context is cancelled or expires
Cancel2 ==
    /\ ctxErr2 = NoErr
    /\ ctxErr2' \in CtxErrs
    /\ UNCHANGED <<lower2, pc2, height2, blk2, err2, ret2>>
    /\ UNCHANGED <<waitVars, buildVars, submitVars>>

\* for { height++ ; select {
Wait2Increment ==
    /\ pc2 = "loop"
    /\ height2' = height2 + 1
    /\ pc2' = "select"
    /\ UNCHANGED <<lower2, blk2, err2, ret2, ctxErr2>>
    /\ UNCHANGED <<waitVars, buildVars, submitVars>>

\* case <-ctx.Done(): return 0, ctx.Err()
Wait2Cancelled ==
    /\ pc2 = "select"
    /\ ctxErr2 # NoErr
    /\ ret2' = Return(0, ctxErr2)
    /\ pc2' = "done"
    /\ UNCHANGED <<lower2, height2, blk2, err2, ctxErr2>>
    /\ UNCHANGED <<waitVars, buildVars, submitVars>>

\* case <-bcr.chain.BlockWaiter(height): the fetch succeeds
Wait2Fetched ==
    /\ pc2 = "select"
    /\ BlockLanded(height2)
    /\ blk2' = chain[height2]
    /\ err2' = NoErr
    /\ pc2' = "scan"
    /\ UNCHANGED <<lower2, height2, ret2, ctxErr2>>
    /\ UNCHANGED <<waitVars, buildVars, submitVars>>

\* the same case, GetBlockByHeight failing
Wait2FetchFailed ==
    /\ pc2 = "select"
    /\ BlockLanded(height2)
    /\ err2' = ErrFetch
    /\ ret2' = Return(0, Wrap(ErrFetch, "getting block that just landed"))
    /\ pc2' = "done"
    /\ UNCHANGED <<lower2, height2, blk2, ctxErr2>>
    /\ UNCHANGED <<waitVars, buildVars, submitVars>>

\* mutant: the second caller's scan is satisfied by the first caller's
\* transaction
Wait2Confirmed_OnAwaitedTx ==
    /\ pc2 = "scan"
    /\ BlockContains(blk2, AwaitedTx)
    /\ ret2' = Return(height2, NoErr)
    /\ pc2' = "done"
    /\ UNCHANGED <<lower2, height2, blk2, err2, ctxErr2>>
    /\ UNCHANGED <<waitVars, buildVars, submitVars>>

\* the scan finds confirmed.ID == tx.ID: return height, nil
Wait2Confirmed ==
    /\ pc2 = "scan"
    /\ BlockContains(blk2, OtherTx)
    /\ ret2' = Return(height2, NoErr)
    /\ pc2' = "done"
    /\ UNCHANGED <<lower2, height2, blk2, err2, ctxErr2>>
    /\ UNCHANGED <<waitVars, buildVars, submitVars>>

\* the scan finds nothing: err = txbuilder.FinalizeTx(ctx, bcr.chain, tx)
Wait2Reinject ==
    /\ pc2 = "scan"
    /\ ~BlockContains(blk2, OtherTx)
    /\ \E ok \in BOOLEAN :
          /\ pool' = IF ok THEN pool \cup {OtherTx} ELSE pool
          /\ err2' = IF ok THEN NoErr ELSE ErrRejected
    /\ pc2' = "reinjected"
    /\ UNCHANGED <<lower2, height2, blk2, ret2, ctxErr2>>
    /\ UNCHANGED <<chain, ctxErr, op, waitUntil, lower, pc, height,
                   localHeight, blk, err, ret, waited, fetched, finalized,
                   admitted>>
    /\ UNCHANGED <<buildVars, submitVars>>

\* if err != nil { return 0, err }
Wait2ReinjectFailed ==
    /\ pc2 = "reinjected"
    /\ err2 # NoErr
    /\ ret2' = Return(0, err2)
    /\ pc2' = "done"
    /\ UNCHANGED <<lower2, height2, blk2, err2, ctxErr2>>
    /\ UNCHANGED <<waitVars, buildVars, submitVars>>

\* err == nil: back to the top of the for
Wait2Continue ==
    /\ pc2 = "reinjected"
    /\ err2 = NoErr
    /\ pc2' = "loop"
    /\ UNCHANGED <<lower2, height2, blk2, err2, ret2, ctxErr2>>
    /\ UNCHANGED <<waitVars, buildVars, submitVars>>

InitWait2 ==
    /\ chain = << >>
    /\ pool = {}
    /\ ctxErr = NoErr
    /\ op = "waitForTxInBlock"
    /\ waitUntil = "none"
    /\ lower = 0
    /\ pc = "loop"
    /\ height = lower
    /\ localHeight = 0
    /\ blk = NoBlock
    /\ err = NoErr
    /\ ret = NoRet
    /\ waited = << >>
    /\ fetched = << >>
    /\ finalized = << >>
    /\ admitted = << >>
    /\ lower2 \in 0 .. MaxLower
    /\ pc2 = "loop"
    /\ height2 = lower2
    /\ blk2 = NoBlock
    /\ err2 = NoErr
    /\ ret2 = NoRet
    /\ ctxErr2 = NoErr
    /\ BuildIdle
    /\ SubmitIdle

NextWait2 ==
    \/ LandBlock
    \/ Cancel
    \/ Cancel2
    \/ WaitIncrement
    \/ WaitCancelled
    \/ WaitFetched
    \/ WaitFetchFailed
    \/ WaitConfirmed
    \/ WaitReinject
    \/ WaitReinjectFailed
    \/ WaitContinue
    \/ Wait2Increment
    \/ Wait2Cancelled
    \/ Wait2Fetched
    \/ Wait2FetchFailed
    \/ Wait2Confirmed
    \/ Wait2Reinject
    \/ Wait2ReinjectFailed
    \/ Wait2Continue

SpecWait2 == InitWait2 /\ [][NextWait2]_vars

-----------------------------------------------------------------------------
(* Properties of waitForTxInBlock and finalizeTxWait, under SpecWait *)

IsWait == op = "waitForTxInBlock"
IsFtw == op = "finalizeTxWait"

\* the block that landed at height h holds the awaited transaction
TxInBlockAt(h) == AwaitedTx \in chain[h].Transactions

ErrFetchWrapped == Wrap(ErrFetch, "getting block that just landed")

\* C1: waitForTxInBlock called with lower bound H returns (h, nil) only for
\* the smallest height h > H whose block holds the awaited transaction, and
\* it returns exactly that unless the context was cancelled, a block fetch
\* failed or a re-injection failed before that block was inspected: it never
\* walks past a block that holds the transaction.  In particular, when the
\* block at H+1 holds the transaction, no return is at a height above H+1 and
\* none is a re-injection failure.
C1_ReturnsFirstConfirmingHeight ==
    IsWait =>
        /\ \A k \in 1 .. Len(fetched) - 1 : ~TxInBlockAt(fetched[k])
        /\ (ret.done /\ ret.err = NoErr) =>
              /\ ret.height > lower
              /\ ret.height <= Len(chain)
              /\ TxInBlockAt(ret.height)
              /\ \A h \in lower + 1 .. ret.height - 1 : ~TxInBlockAt(h)
        /\ ret.done =>
              \/ ret.err = NoErr
              \/ ret.err \in CtxErrs
              \/ ret.err = ErrFetchWrapped
              \/ ret.err = ErrRejected
        /\ (ret.done /\ ret.err = ErrRejected) =>
              \A k \in 1 .. Len(fetched) : ~TxInBlockAt(fetched[k])
        /\ (ret.done /\ lower + 1 <= Len(chain) /\ TxInBlockAt(lower + 1)) =>
              \/ ret = Return(lower + 1, NoErr)
              \/ ret.err \in CtxErrs
              \/ ret.err = ErrFetchWrapped

\* C1 witness: a wait from H = 1 that saw a miss at height 2 and returned the
\* confirming height 3
C1_Witness ==
    /\ IsWait
    /\ lower = 1
    /\ ret = Return(3, NoErr)
    /\ AwaitedTx \in chain[1].Transactions

\* the heights of a sequence are pairwise different
NoRepeat(s) == \A i, j \in 1 .. Len(s) : s[i] = s[j] => i = j

\* s without its last element
Front(s) == SubSeq(s, 1, Len(s) - 1)

C2_OncePerMiss ==
    IsWait =>
        /\ NoRepeat(finalized)
        /\ \A k \in 1 .. Len(finalized) : ~TxInBlockAt(finalized[k])
        /\ pc \in {"loop", "select", "reinjected"} => finalized = fetched
        /\ pc = "scan" => finalized = Front(fetched)
        /\ pc = "done" => finalized \in {fetched, Front(fetched)}
        /\ (pc = "done" /\ ret.err \in {NoErr, ErrFetchWrapped}) =>
              finalized = Front(fetched)
        /\ (pc = "done" /\ ret.err \notin {NoErr, ErrFetchWrapped}) =>
              finalized = fetched

C2_SuccessContinues ==
    (IsWait /\ pc = "reinjected" /\ err = NoErr /\ pc' # pc) =>
        (pc' = "loop" /\ ret' = NoRet /\ height' = height)

\* C2: for every inspected block that does not hold the awaited transaction,
\* finalize is invoked exactly once before the next height is waited on (the
\* finalize calls are exactly the missed heights, each once, in order), and a
\* successful re-injection never ends the wait: the waiter goes back to the
\* top of the loop with nothing returned.
C2_ReinjectOncePerMissAndContinue ==
    [](C2_OncePerMiss) /\ [][C2_SuccessContinues]_vars

\* C2 witness: two misses, each re-injected, and the waiter waiting on the
\* third height
C2_Witness ==
    /\ IsWait
    /\ pc = "select"
    /\ Len(finalized) = 2
    /\ Len(waited) = 3

\* C3 as claimed: once the context is cancelled, the call returns height 0
\* with the context's error and nothing else.
C3_CancelledAlwaysWins ==
    [][(IsWait /\ ctxErr # NoErr /\ ~ret.done /\ ret'.done) =>
           ret' = Return(0, ctxErr)]_vars

\* C3 amended: cancellation is observed at the select only.  A return taken
\* by the select's ctx.Done branch is (0, ctx.Err()), and a waiter that
\* leaves the select while the context is cancelled and no block has landed
\* at the tracked height returns (0, ctx.Err()).
C3_CancelObservedAtSelect ==
    [][(IsWait /\ pc = "select" /\ pc' # "select") =>
           /\ (pc' = "done" /\ fetched' = fetched) =>
                 (ctxErr # NoErr /\ ret' = Return(0, ctxErr))
           /\ (ctxErr # NoErr /\ ~BlockLanded(height)) =>
                 (pc' = "done" /\ ret' = Return(0, ctxErr))]_vars

\* C3 witness: a wait cancelled while no block had landed at the tracked
\* height, returned as cancelled
C3_Witness ==
    /\ IsWait
    /\ ret.done
    /\ ret = Return(0, ctxErr)
    /\ ctxErr \in CtxErrs
    /\ ~BlockLanded(height)
    /\ fetched # << >>

\* C4: started with lower bound H, the heights waited on are H+1, H+2, ...
\* in that order, the heights fetched are the same sequence (less the one
\* still waited on), so no height is fetched twice and none is <= H.
C4_HeightsIncreaseByOne ==
    IsWait =>
        /\ \A k \in 1 .. Len(waited) : waited[k] = lower + k
        /\ height = lower + Len(waited)
        /\ Len(fetched) \in {Len(waited) - 1, Len(waited)}
        /\ \A k \in 1 .. Len(fetched) : fetched[k] = waited[k]
        /\ NoRepeat(fetched)
        /\ \A k \in 1 .. Len(fetched) : fetched[k] > lower

\* C4 witness: from H = 1 the waiter has fetched heights 2 and 3
C4_Witness ==
    /\ IsWait
    /\ lower = 1
    /\ fetched = <<2, 3>>

\* C5: finalizeTxWait with waitUntil = "confirmed" returns nil only after a
\* block holding the transaction, above the recorded lower bound, has landed.
C5_NilMeansConfirmed ==
    (IsFtw /\ waitUntil = "confirmed" /\ ret.done /\ ret.err = NoErr) =>
        \E h \in localHeight + 1 .. Len(chain) : TxInBlockAt(h)

\* some step of finalizeTxWait is enabled
FtwCanStep ==
    ENABLED (\/ FtwHeight \/ FtwFinalize \/ FtwReturnErr \/ FtwReturnNone
             \/ FtwReturnConfirmed \/ FtwReturnOther)

\* C6: finalizeTxWait with waitUntil = "none" does not block (until it has
\* returned it can always take its next step, whatever the chain and the
\* context do), calls FinalizeTx exactly once, returns that call's error or
\* nil, and never waits on a block signal or fetches a block.
C6_NoneDoesNotWait ==
    (IsFtw /\ waitUntil = "none") =>
        /\ waited = << >>
        /\ fetched = << >>
        /\ Len(finalized) = IF pc \in {"finalized", "done"} THEN 1 ELSE 0
        /\ ret.done <=> pc = "done"
        /\ ret.done => (ret.err = err /\ ret.err \in {NoErr, ErrRejected})
        /\ ~ret.done => FtwCanStep

\* C6 witness: a fire-and-forget call that returned nil with no block on the
\* chain at all
C6_Witness ==
    /\ IsFtw
    /\ waitUntil = "none"
    /\ ret = Return(0, NoErr)
    /\ chain = << >>
    /\ Len(finalized) = 1

-----------------------------------------------------------------------------
(* Properties of buildSingle, under SpecBuild *)

NumActions == Len(req.Actions)

\* the ActionSpec at position k (index k - 1) has no string-valued type
HasNoType(k) == req.Actions[k].type.kind # "string"

\* it has a string type that is none of the nine registered tags
HasUnknownType(k) ==
    /\ req.Actions[k].type.kind = "string"
    /\ req.Actions[k].type.s \notin RegisteredTypes

HasRegisteredType(k) ==
    /\ req.Actions[k].type.kind = "string"
    /\ req.Actions[k].type.s \in RegisteredTypes

\* the loop gets past it: registered type, serialisable, decodable payload
Sound(k) == HasRegisteredType(k) /\ req.Actions[k].payload = "good"

SomeUnsound == \E k \in 1 .. NumActions : ~Sound(k)

\* the first position the loop cannot get past
FirstUnsound ==
    CHOOSE k \in 1 .. NumActions :
        ~Sound(k) /\ \A j \in 1 .. k - 1 : Sound(j)

ErrNoType(i) ==
    BErr("errBadActionType", "no action type provided on action", "", i,
         << >>)

ErrUnknownType(typ, i) ==
    BErr("errBadActionType", "unknown action type on action", typ, i, << >>)

ErrDecode(i) ==
    BErr("errBadAction", "malformed payload on action", "", i, << >>)

\* C7 as claimed: whenever some ActionSpec has no string-valued type, the
\* build fails with the bad-action-type error "no action type provided"
\* naming the index of such an action, and returns no template.  (Read in
\* the claim's favour: only builds whose alias filtering succeeded count.)
C7_NoTypeAlwaysNamed ==
    (bret.done /\ ferr = NoBErr /\ \E k \in 1 .. NumActions : HasNoType(k)) =>
        /\ bret.tpl.isNil
        /\ bret.err.root = "errBadActionType"
        /\ bret.err.text = "no action type provided on action"
        /\ bret.err.index + 1 \in 1 .. NumActions
        /\ HasNoType(bret.err.index + 1)

\* C7 amended: whenever some ActionSpec has no string-valued type, the build
\* returns an error and no template and never calls the assembly; the error
\* is the bad-action-type error "no action type provided on action i"
\* exactly when alias filtering succeeded and the first action the loop
\* cannot get past, at index i, is one without a string-valued type.
C7_NoTypeNamedWhenFirstFailure ==
    (bret.done /\ \E k \in 1 .. NumActions : HasNoType(k)) =>
        /\ bret.tpl.isNil
        /\ bret.err # NoBErr
        /\ ~asm.called
        /\ (ferr = NoBErr /\ HasNoType(FirstUnsound)) =>
              bret.err = ErrNoType(FirstUnsound - 1)
        /\ bret.err.text = "no action type provided on action" =>
              (ferr = NoBErr /\ HasNoType(FirstUnsound)
                 /\ bret.err.index = FirstUnsound - 1)

\* C7 witness: a sound action at index 0, an action without type at index 1,
\* and the error naming index 1
C7_Witness ==
    /\ bret.done
    /\ NumActions = 2
    /\ Sound(1)
    /\ req.Actions[2].type.kind = "absent"
    /\ bret.err = ErrNoType(1)

\* C8 as claimed: whenever some ActionSpec has a type outside the nine
\* registered tags, the build fails with the client error naming an unknown
\* type of the list and its index.  (Read in the claim's favour: only
\* builds whose alias filtering succeeded count.)
C8_UnknownTypeAlwaysNamed ==
    (/\ bret.done
     /\ ferr = NoBErr
     /\ \E k \in 1 .. NumActions : HasUnknownType(k)) =>
        /\ bret.tpl.isNil
        /\ bret.err.root = "errBadActionType"
        /\ bret.err.text = "unknown action type on action"
        /\ bret.err.index + 1 \in 1 .. NumActions
        /\ HasUnknownType(bret.err.index + 1)
        /\ bret.err.typ = req.Actions[bret.err.index + 1].type.s

\* C8 amended: whenever some ActionSpec has a type outside the nine
\* registered tags, the build returns an error and no template and never
\* calls the assembly; the error is "unknown action type <typ> on action i",
\* naming that one action only, exactly when alias filtering succeeded and
\* the first action the loop cannot get past, at index i, has the
\* unregistered type typ.
C8_UnknownTypeNamedWhenFirstFailure ==
    (bret.done /\ \E k \in 1 .. NumActions : HasUnknownType(k)) =>
        /\ bret.tpl.isNil
        /\ bret.err # NoBErr
        /\ ~asm.called
        /\ (ferr = NoBErr /\ HasUnknownType(FirstUnsound)) =>
              bret.err = ErrUnknownType(req.Actions[FirstUnsound].type.s,
                                        FirstUnsound - 1)
        /\ bret.err.text = "unknown action type on action" =>
              (ferr = NoBErr /\ HasUnknownType(FirstUnsound)
                 /\ bret.err.index = FirstUnsound - 1)

\* C8 witness: [spend_account, bogus_type] fails naming index 1 and
\* "bogus_type"
C8_Witness ==
    /\ bret.done
    /\ NumActions = 2
    /\ Sound(1)
    /\ req.Actions[1].type.s = "spend_account"
    /\ req.Actions[2].type.s = "bogus_type"
    /\ bret.err = ErrUnknownType("bogus_type", 1)

\* positions whose payload the decoder rejects
Undecodable ==
    {k \in 1 .. NumActions : req.Actions[k].payload = "malformed"}

\* positions the assembly rejected
Rejected == {asm.err.data[k].index + 1 : k \in 1 .. Len(asm.err.data)}

\* positions an error reports
Reported(e) ==
    IF e.root = "ErrAction"
    THEN {e.data[k].index + 1 : k \in 1 .. Len(e.data)}
    ELSE IF e.index >= 0 THEN {e.index + 1} ELSE {}

\* C9 as claimed: the returned error reports every invalid action (payloads
\* that fail to decode, actions the assembly rejects), one entry each.
C9_EveryInvalidActionReported ==
    (/\ bret.done
     /\ ferr = NoBErr
     /\ \A k \in 1 .. NumActions :
           HasRegisteredType(k) /\ req.Actions[k].payload # "unmarshalable")
    => Reported(bret.err) = Undecodable \cup Rejected

\* C9 amended: only the failures the assembly reports in the action-error
\* class are aggregated: then the returned error carries one formatted entry
\* per action the assembly rejected, with its index, in order.  A failure
\* in the per-action loop (missing type, unknown type, serialisation or
\* decode failure) fails fast: the build returns at the first such action,
\* the error names that action alone, later invalid actions are not
\* reported and the assembly is never called.
C9_AggregatesAssemblyErrorsOnly ==
    bret.done =>
        /\ (asm.called /\ asm.err.root = "ErrAction") =>
              /\ \A k \in 1 .. NumActions : Sound(k)
              /\ bret.err.root = "ErrAction"
              /\ Len(bret.err.data) = Len(asm.err.data)
              /\ Len(bret.err.data) >= 1
              /\ \A k \in 1 .. Len(bret.err.data) :
                    bret.err.data[k] =
                        [response |-> asm.err.data[k].text,
                         index |-> asm.err.data[k].index]
              /\ Reported(bret.err) = Rejected
        /\ bret.err.root = "ErrAction" => asm.called
        /\ (ferr = NoBErr /\ SomeUnsound) =>
              /\ ~asm.called
              /\ bret.err # NoBErr
              /\ bret.err.data = << >>
              /\ Reported(bret.err) \subseteq {FirstUnsound}
              /\ (HasRegisteredType(FirstUnsound)
                    /\ req.Actions[FirstUnsound].payload = "malformed") =>
                    bret.err = ErrDecode(FirstUnsound - 1)

\* C9 witness: two actions, both rejected by the assembly, both reported
C9_Witness ==
    /\ bret.done
    /\ NumActions = 2
    /\ Rejected = {1, 2}
    /\ Len(bret.err.data) = 2
    /\ bret.err.data[1].index = 0
    /\ bret.err.data[2].index = 1

\* C10: whenever buildSingle returns without error, the template's
\* SigningInstructions is a non-nil sequence holding what the assembly
\* produced (empty when it produced none or nil); and buildSingle returns
\* either a template or an error, never both and never neither.
C10_SigningInstructionsNeverNil ==
    bret.done =>
        /\ bret.err = NoBErr =>
              /\ asm.called
              /\ ~bret.tpl.isNil
              /\ ~bret.tpl.SigningInstructions.isNil
              /\ bret.tpl.SigningInstructions.items =
                     asm.tpl.SigningInstructions.items
        /\ bret.tpl.isNil <=> bret.err # NoBErr

\* C10 witness: the assembly produced nil SigningInstructions and the
\* returned template carries the empty sequence
C10_Witness ==
    /\ bret.done
    /\ bret.err = NoBErr
    /\ asm.tpl.SigningInstructions = NilSlice
    /\ bret.tpl.SigningInstructions = Slice(<< >>)

\* C11: the expiry bound handed to the assembly is now + ttl for a non-zero
\* caller TTL and now + 5 minutes for a zero or unset TTL, so a build with
\* ttl = 0 and a build with ttl unset at the same clock reading get the same
\* bound.
C11_ExpiryBound ==
    (bpc \in {"assemble", "built", "done"} /\ ferr = NoBErr /\ ~SomeUnsound)
    =>
        /\ req.TTL.Duration # 0 => asm.maxTime = asm.now + req.TTL.Duration
        /\ req.TTL.Duration = 0 => asm.maxTime = asm.now + 5
        /\ ~req.TTL.set => asm.maxTime = asm.now + 5
        /\ bret.done => asm.called

\* C11 witness: a build with ttl set to 0 handed the assembly the bound
\* now + 5 at clock reading 1
C11_Witness ==
    /\ asm.called
    /\ req.TTL = [set |-> TRUE, Duration |-> 0]
    /\ asm.now = 1
    /\ asm.maxTime = 6

-----------------------------------------------------------------------------
(* Properties of submit and signSubmit, under SpecSubmit *)

\* the submit stage has been entered: always for submit, after a successful
\* Sign for signSubmit
SubmitStage == op = "submit" \/ stpl.signed

C12_MissingTxInv ==
    stpl.Transaction = NoTx =>
        /\ finalized = << >>
        /\ sres.txid = ""
        /\ (sres.done /\ SubmitStage) => sres = Respond("", ErrMissingRawTx)
        /\ (sres.done /\ ~SubmitStage) => sres = Respond("", ErrSign)

C12_MissingTxStep ==
    (stpl.Transaction = NoTx /\ pc' # pc) => pool' = pool

\* C12: submitting a Template without a built transaction fails with the
\* "missing raw transaction" error and no txid, FinalizeTx is never invoked
\* and no step of the call changes the pending pool; for submit and for the
\* submit stage of signSubmit alike.
C12_MissingRawTx ==
    [](C12_MissingTxInv) /\ [][C12_MissingTxStep]_vars

\* C12 witness: signSubmit signed a Template without transaction and its
\* submit stage answered "missing raw transaction"
C12_Witness ==
    /\ op = "signSubmit"
    /\ stpl = Template(NoTx, TRUE)
    /\ sres = Respond("", ErrMissingRawTx)
    /\ finalized = << >>

\* C13: submitSingle on a Template with a built transaction invokes
\* FinalizeTx exactly once; if it succeeds the result is {"txid": ID of that
\* transaction}, if it rejects the result is the rejection wrapped with
\* "tx <ID>", with no txid and no second FinalizeTx.
C13_FinalizeOnceAndReport ==
    (stpl.Transaction # NoTx /\ SubmitStage) =>
        /\ Len(finalized) = IF pc \in {"submitted", "done"} THEN 1 ELSE 0
        /\ sres.done <=> pc = "done"
        /\ (sres.done /\ err = NoErr) =>
              sres = Respond(stpl.Transaction, NoErr)
        /\ (sres.done /\ err # NoErr) =>
              /\ sres.txid = ""
              /\ sres.err.root = "ErrRejected"
              /\ sres.err.wrap =
                    (IF stpl.Transaction = "txA" THEN "tx txA" ELSE "tx txB")
        /\ sres.done => err \in {NoErr, ErrRejected}

\* C13 witness: a duplicate submission (the transaction is in the pool
\* already) rejected with the transaction's own ID in the error
C13_Witness ==
    /\ op = "submit"
    /\ stpl.Transaction = OtherTx
    /\ OtherTx \in pool
    /\ sres.done
    /\ sres.err = [root |-> "ErrRejected", wrap |-> "tx txB"]
    /\ Len(finalized) = 1

\* C14: signSubmit signs strictly before it submits and surfaces the stage
\* that fails first: when Sign fails (always so with an invalid credential)
\* the response carries the signing error and FinalizeTx is never invoked;
\* FinalizeTx is invoked only after Sign has returned success.
C14_SignBeforeSubmit ==
    op = "signSubmit" =>
        /\ finalized # << >> => stpl.signed
        /\ pc \in {"submit", "submitted"} => stpl.signed
        /\ (sres.done /\ ~stpl.signed) =>
              (sres = Respond("", ErrSign) /\ finalized = << >>)
        /\ (sres.done /\ auth = "invalid") => sres = Respond("", ErrSign)
        /\ sres.err = ErrSign => finalized = << >>

\* C14 witness: an invalid credential on a Template that carries a
\* transaction: the signing error, and no FinalizeTx
C14_Witness ==
    /\ op = "signSubmit"
    /\ auth = "invalid"
    /\ stpl.Transaction = AwaitedTx
    /\ sres = Respond("", ErrSign)
    /\ finalized = << >>

-----------------------------------------------------------------------------
(* Failures inside waitForTxInBlock, under SpecWait *)

\* the last element of a non-empty sequence
Last(s) == s[Len(s)]

\* what the waiter has done and returned so far
waiterVars == <<pc, height, blk, err, ret, waited, fetched, finalized,
                admitted>>

C16_FetchFailureInv ==
    (IsWait /\ err = ErrFetch) =>
        /\ pc = "done"
        /\ ret = Return(0, ErrFetchWrapped)
        /\ NoRepeat(fetched)
        /\ Last(fetched) = height
        /\ Last(waited) = height
        /\ finalized = Front(fetched)
        /\ admitted = finalized

C16_FetchFailureStep ==
    /\ (IsWait /\ pc = "select" /\ err' = ErrFetch) =>
          (ret' = Return(0, ErrFetchWrapped) /\ pc' = "done"
              /\ UNCHANGED <<height, finalized, admitted, waited, pool>>)
    /\ (IsWait /\ err = ErrFetch) => UNCHANGED waiterVars

\* C16: when the fetch of a block whose landing was signalled fails, the wait
\* ends there: it returns height 0 and the fetch error wrapped as "getting
\* block that just landed"; the failing height was fetched once, no FinalizeTx
\* was called for it, and afterwards nothing more is waited on, fetched or
\* re-injected.
C16_FetchFailureIsFatal ==
    [](C16_FetchFailureInv) /\ [][C16_FetchFailureStep]_vars

\* C16 witness: a miss at height 1, a re-injection, and a failed fetch of
\* the block at height 2, which holds the awaited transaction
C16_Witness ==
    /\ IsWait
    /\ fetched = <<1, 2>>
    /\ finalized = <<1>>
    /\ TxInBlockAt(2)
    /\ ret = Return(0, ErrFetchWrapped)

C17_ReinjectFailureInv ==
    (IsWait /\ err = ErrRejected) =>
        /\ pc \in {"reinjected", "done"}
        /\ pc = "done" => ret = Return(0, ErrRejected)
        /\ Last(fetched) = height
        /\ Last(waited) = height
        /\ finalized = fetched
        /\ admitted = Front(fetched)
        /\ ~TxInBlockAt(height)

C17_ReinjectFailureStep ==
    /\ (IsWait /\ pc = "reinjected" /\ err # NoErr /\ waiterVars' # waiterVars)
          => (ret' = Return(0, err) /\ pc' = "done"
                /\ UNCHANGED <<height, err, waited, fetched, finalized,
                               admitted>>)
    /\ (IsWait /\ pc = "done" /\ err = ErrRejected) => UNCHANGED waiterVars

\* C17: when the re-injection after a miss fails, the wait ends there: it
\* returns height 0 and FinalizeTx's error, and no height above the missed one
\* is ever waited on or fetched, whatever the blocks above it hold.
C17_ReinjectFailureIsTerminal ==
    [](C17_ReinjectFailureInv) /\ [][C17_ReinjectFailureStep]_vars

\* C17 witness: the re-injection after the miss at height 1 failed and the
\* call returned, although the block at height 2 holds the transaction
C17_Witness ==
    /\ IsWait
    /\ ret = Return(0, ErrRejected)
    /\ fetched = <<1>>
    /\ Len(chain) >= 2
    /\ TxInBlockAt(2)

\* the three kinds of return of waitForTxInBlock
RetConfirmed == ret.done /\ ret.err = NoErr
RetCancelled == ret.done /\ ret.err \in CtxErrs
RetError == ret.done /\ ret.err \in {ErrFetchWrapped, ErrRejected}

\* C19: a return of waitForTxInBlock is of exactly one kind: confirmed (nil
\* error), cancelled (the context's error) or error (a wrapped fetch error or
\* FinalizeTx's error).  A non-zero height comes only with a nil error and
\* every non-nil error comes with height 0.  A nil-error return at h means
\* that the block fetched last, at h, holds the awaited transaction, that the
\* heights fetched before it are lower+1 .. h-1 in order, each a miss, and
\* that FinalizeTx was called and succeeded for each of them.
C19_ReturnIsUnambiguous ==
    (IsWait /\ ret.done) =>
        /\ pc = "done"
        /\ (RetConfirmed /\ ~RetCancelled /\ ~RetError)
              \/ (~RetConfirmed /\ RetCancelled /\ ~RetError)
              \/ (~RetConfirmed /\ ~RetCancelled /\ RetError)
        /\ ret.height # 0 => ret.err = NoErr
        /\ ret.err # NoErr => ret.height = 0
        /\ RetCancelled => ret.err = ctxErr
        /\ RetConfirmed =>
              /\ fetched # << >>
              /\ Last(fetched) = ret.height
              /\ blk = chain[ret.height]
              /\ TxInBlockAt(ret.height)
              /\ \A k \in 1 .. Len(fetched) : fetched[k] = lower + k
              /\ \A k \in 1 .. Len(fetched) - 1 : ~TxInBlockAt(fetched[k])
              /\ finalized = Front(fetched)
              /\ admitted = Front(fetched)

\* C19 witness: misses at heights 1 and 2, each followed by a successful
\* re-injection, and the confirmation at height 3
C19_Witness ==
    /\ IsWait
    /\ lower = 0
    /\ admitted = <<1, 2>>
    /\ ret = Return(3, NoErr)

-----------------------------------------------------------------------------
(* Properties of concurrent waiters, under SpecWait2 *)

\* the block that landed at height h holds the second caller's transaction
Tx2InBlockAt(h) == OtherTx \in chain[h].Transactions

\* C15: two concurrent calls of waitForTxInBlock, for two different
\* transactions, are each decided by their own transaction alone: a call
\* returns (h, nil) exactly at the first block above its lower bound that
\* holds its own transaction, whatever else that block holds, and every block
\* it passed or re-injected after is one without its own transaction, even
\* when it holds the other caller's.
C15_OwnTransactionOnly ==
    (IsWait /\ pc2 # "idle") =>
        /\ \A h \in lower + 1 .. height - 1 : ~TxInBlockAt(h)
        /\ \A h \in lower2 + 1 .. height2 - 1 : ~Tx2InBlockAt(h)
        /\ pc = "scan" => blk = chain[height]
        /\ pc2 = "scan" => blk2 = chain[height2]
        /\ pc = "reinjected" => ~TxInBlockAt(height)
        /\ pc2 = "reinjected" => ~Tx2InBlockAt(height2)
        /\ (ret.done /\ ret.err = NoErr) =>
              (ret.height = height /\ TxInBlockAt(height))
        /\ (ret2.done /\ ret2.err = NoErr) =>
              (ret2.height = height2 /\ Tx2InBlockAt(height2))
        /\ (pc = "done" /\ ret.err # NoErr /\ height <= Len(chain)
              /\ TxInBlockAt(height)) =>
              ret.err \in CtxErrs \cup {ErrFetchWrapped}
        /\ (pc2 = "done" /\ ret2.err # NoErr /\ height2 <= Len(chain)
              /\ Tx2InBlockAt(height2)) =>
              ret2.err \in CtxErrs \cup {ErrFetchWrapped}

\* C15 witness: the first caller missed a block that held only the other
\* caller's transaction, re-injected, and both callers were confirmed by the
\* same later block, which holds both transactions
C15_Witness ==
    /\ IsWait
    /\ lower = 0
    /\ lower2 = 1
    /\ Len(chain) >= 2
    /\ chain[1].Transactions = {OtherTx}
    /\ chain[2].Transactions = {AwaitedTx, OtherTx}
    /\ finalized = <<1>>
    /\ ret = Return(2, NoErr)
    /\ ret2 = Return(2, NoErr)

-----------------------------------------------------------------------------
(* The alias step of buildSingle, under SpecBuild *)

\* C18: when filterAliases fails, buildSingle returns at once a nil template
\* and filterAliases's error as it came, which carries the index of the action
\* it arose on: the loop has decoded nothing and the assembly routine was not
\* called.
C18_AliasFailureAborts ==
    ferr # NoBErr =>
        /\ bpc = "done"
        /\ bret = BReturn(NilTpl, ferr)
        /\ ferr.index \in 0 .. NumActions - 1
        /\ ferr = AliasErr(ferr.index + 1)
        /\ idx = 0
        /\ actions = << >>
        /\ asm = NoAsm

\* C18 witness: the alias step failed on the second of two well-formed
\* actions
C18_Witness ==
    /\ NumActions = 2
    /\ \A k \in 1 .. 2 : HasRegisteredType(k)
    /\ bret = BReturn(NilTpl, AliasErr(2))

-----------------------------------------------------------------------------
(* Termination of waitForTxInBlock, under FairSpecWait *)

\* some block above the lower bound holds the awaited transaction
Included == \E h \in lower + 1 .. Len(chain) : TxInBlockAt(h)

\* no fetch and no re-injection has failed
NoFailure == err = NoErr

C20_IncludedTerminates == (IsWait /\ Included) ~> ret.done

C20_CancelledTerminates == (IsWait /\ ctxErr # NoErr) ~> ret.done

C20_NoOtherExit ==
    (IsWait /\ ~Included /\ ctxErr = NoErr /\ NoFailure) => ~ret.done

\* C20: under a fair scheduler waitForTxInBlock returns once a block above
\* the lower bound holds the awaited transaction, and it returns once the
\* context is cancelled.  Conversely it has not returned in any state where
\* no block above the lower bound holds the transaction, the context is not
\* cancelled and no fetch or re-injection has failed: the loop has no other
\* exit.
C20_TerminatesOnlyOnInclusionCancelOrFailure ==
    /\ C20_IncludedTerminates
    /\ C20_CancelledTerminates
    /\ [](C20_NoOtherExit)

\* C20 witness: every landed block was a miss and was re-injected with
\* success, the context is live, and the waiter is blocked waiting for the
\* next block
C20_Witness ==
    /\ IsWait
    /\ Len(chain) = MaxChain
    /\ ~Included
    /\ ctxErr = NoErr
    /\ NoFailure
    /\ pc = "select"
    /\ height = MaxChain + 1
    /\ admitted = fetched
    /\ fetched # << >>
    /\ ~ret.done

=============================================================================
